---- MODULE Spec2Model ----
(***************************************************************************)
(* Model of core/src/layers/sanity_check.rs: SanityCheckLayer wraps an     *)
(* accessor, validates the entry mode of stat results and of every entry   *)
(* a list stream yields, and passes every other operation through.         *)
(*                                                                         *)
(* A path is a sequence of characters.  A Result is a record tagged "Ok"   *)
(* or "Err", an Option a record with the field `some`.                     *)
(***************************************************************************)
EXTENDS Integers, Sequences, FiniteSets, TLC

VARIABLES
    info,        \* SanityCheckAccessor.info: the descriptor captured by layer()
    innerInfo,   \* the descriptor the inner accessor answers info() with
    lister,      \* the SanityCheckLister of the last successful list(), or NoLister
    call,        \* the wrapper operation called last, with its arguments
    innerCalls,  \* the calls that operation made on the inner accessor / inner lister
    innerRp,     \* what the inner accessor answered to it
    checks,      \* the sanity_check_path_mode invocations it ran
    result,      \* what it returned to the caller
    pulled,      \* history: every answer of the inner lister, in order
    yielded,     \* history: every answer of the wrapper lister, in order
    listed       \* history: the list() call that created `lister`

vars == <<info, innerInfo, lister, call, innerCalls, innerRp, checks, result, pulled, yielded, listed>>

----------------------------------------------------------------------------
(* Bounds and input sets *)

MaxPathLen == 2

MaxStream == 3

Chars == {"a", "/"}

RECURSIVE SeqsUpTo(_)
SeqsUpTo(n) ==
    IF n = 0 THEN {<<>>}
    ELSE LET shorter == SeqsUpTo(n - 1)
         IN  shorter \cup {Append(s, c) : s \in {t \in shorter : Len(t) = n - 1}, c \in Chars}

Paths == SeqsUpTo(MaxPathLen)

\* "", "/", "a", "a/": one path of every shape the check tells apart
SamplePaths == {<<>>, <<"/">>, <<"a">>, <<"a", "/">>}

Modes == {"FILE", "DIR", "Unknown"}

Operations == {"Read", "Write", "Stat", "Delete", "List"}

Schemes == {"test", "s3"}

AccessorInfos == [scheme : Schemes]

OpArgs == {"default", "versioned"}

Metadatas == [mode : Modes, content_length : {0, 1}]

Entries(paths) == [path : paths, mode : Modes]

----------------------------------------------------------------------------
(* Result, Option, Error *)

Ok(v) == [tag |-> "Ok", val |-> v]

Err(e) == [tag |-> "Err", err |-> e]

Unit == [unit |-> "()"]

None == [some |-> FALSE]

Some(e) == [some |-> TRUE, entry |-> e]

NoResult == [tag |-> "NoResult"]

NoLister == [created |-> FALSE]

NoCall == [op |-> "none"]

\* Errors of the inner accessor; one of them is itself of kind Unexpected.
InnerErrors ==
    { [kind |-> "NotFound", message |-> [text |-> "inner: not found"],
       operation |-> "inner", context |-> <<>>],
      [kind |-> "Unexpected", message |-> [text |-> "inner: connection reset"],
       operation |-> "inner", context |-> << <<"path", <<"a">> >> >>] }

RpStat_new(meta) == [meta |-> meta]

into_metadata(rp) == rp.meta

----------------------------------------------------------------------------
(* The check *)

is_directory_path_root_only(path) == path = <<"/">>

is_directory_path(path) ==
    path = <<"/">> \/ (Len(path) > 0 /\ path[Len(path)] = "/")

unexpected_response_no_switch(inf, op, target_path, context_path, detail) ==
    [kind      |-> "Unexpected",
     message   |-> [scheme |-> inf.scheme, op |-> op, detail |-> detail],
     operation |-> op,
     context   |-> << <<"path", target_path>>, <<"context_path", context_path>> >>]

unexpected_response(inf, op, target_path, context_path, detail) ==
    LET err == [kind      |-> "Unexpected",
                message   |-> [scheme |-> inf.scheme, op |-> op, detail |-> detail],
                operation |-> op,
                context   |-> << <<"path", target_path>> >>]
    IN  IF op = "List"
        THEN [err EXCEPT !.context = Append(@, <<"list_path", context_path>>)]
        ELSE [err EXCEPT !.context = Append(@, <<"context_path", context_path>>)]

sanity_check_path_mode_unknown_ok(inf, op, context_path, target_path, mode) ==
    IF mode = "DIR" /\ ~is_directory_path(target_path)
    THEN Err(unexpected_response(inf, op, target_path, context_path,
                                 [template |-> "dir_without_slash", P |-> target_path]))
    ELSE IF mode = "FILE" /\ is_directory_path(target_path)
    THEN Err(unexpected_response(inf, op, target_path, context_path,
                                 [template |-> "file_with_slash", P |-> target_path]))
    ELSE Ok(Unit)

sanity_check_path_mode(inf, op, context_path, target_path, mode) ==
    CASE mode = "Unknown" ->
            Err(unexpected_response(inf, op, target_path, context_path,
                                    [template |-> "missing_entry_mode"]))
      [] mode = "DIR" ->
            IF ~is_directory_path(target_path)
            THEN Err(unexpected_response(inf, op, target_path, context_path,
                                         [template |-> "dir_without_slash", P |-> target_path]))
            ELSE Ok(Unit)
      [] mode = "FILE" ->
            IF is_directory_path(target_path)
            THEN Err(unexpected_response(inf, op, target_path, context_path,
                                         [template |-> "file_with_slash", P |-> target_path]))
            ELSE Ok(Unit)

\* the record `checks` keeps of one invocation
CheckRun(op, context_path, target_path, mode) ==
    [op |-> op, context_path |-> context_path, target_path |-> target_path, mode |-> mode]

----------------------------------------------------------------------------
(* The inner accessor: any answer the wrapped service may give *)

InnerStatResponses ==
    {Ok(RpStat_new(m)) : m \in Metadatas} \cup {Err(e) : e \in InnerErrors}

InnerIoResponses(rp) ==
    {Ok([rp |-> rp, io |-> h]) : h \in {"h1", "h2"}} \cup {Err(e) : e \in InnerErrors}

\* A fresh inner lister.  `done` records that it has answered Ok(None).
InnerLister == [done |-> FALSE]

InnerListResponses ==
    {Ok([rp |-> "RpList", lister |-> InnerLister])} \cup {Err(e) : e \in InnerErrors}

\* oio::List::next of the inner lister: an entry, an error or the end of the
\* stream; once it has answered Ok(None) it answers Ok(None) to every later call.
InnerNextResponses(inner, paths) ==
    IF inner.done THEN {Ok(None)}
    ELSE {Ok(None)} \cup {Ok(Some(e)) : e \in Entries(paths)} \cup {Err(e) : e \in InnerErrors}

InnerLister_after(inner, rp) == [done |-> inner.done \/ rp = Ok(None)]

----------------------------------------------------------------------------
(* SanityCheckLayer and SanityCheckAccessor *)

SanityCheckLayer_layer(inner_info) == inner_info

SanityCheckLister_new(inf, list_path, inner) ==
    [created |-> TRUE, info |-> inf, list_path |-> list_path, inner |-> inner]

SanityCheckAccessor_info_refetch ==
    /\ call' = [op |-> "info"]
    /\ innerCalls' = <<[op |-> "info"]>>
    /\ innerRp' = Ok(innerInfo)
    /\ checks' = <<>>
    /\ result' = Ok(innerInfo)
    /\ UNCHANGED <<info, innerInfo, lister>>

SanityCheckAccessor_info ==
    /\ call' = [op |-> "info"]
    /\ innerCalls' = <<>>
    /\ innerRp' = NoResult
    /\ checks' = <<>>
    /\ result' = Ok(info)
    /\ UNCHANGED <<info, innerInfo, lister>>

SanityCheckAccessor_read(path, args, rp) ==
    /\ call' = [op |-> "read", path |-> path, args |-> args]
    /\ innerCalls' = <<[op |-> "read", path |-> path, args |-> args]>>
    /\ innerRp' = rp
    /\ checks' = <<>>
    /\ result' = rp
    /\ UNCHANGED <<info, innerInfo, lister>>

SanityCheckAccessor_write(path, args, rp) ==
    /\ call' = [op |-> "write", path |-> path, args |-> args]
    /\ innerCalls' = <<[op |-> "write", path |-> path, args |-> args]>>
    /\ innerRp' = rp
    /\ checks' = <<>>
    /\ result' = rp
    /\ UNCHANGED <<info, innerInfo, lister>>

SanityCheckAccessor_delete(rp) ==
    /\ call' = [op |-> "delete"]
    /\ innerCalls' = <<[op |-> "delete"]>>
    /\ innerRp' = rp
    /\ checks' = <<>>
    /\ result' = rp
    /\ UNCHANGED <<info, innerInfo, lister>>

SanityCheckAccessor_stat_rebuild(path, args, rp) ==
    /\ call' = [op |-> "stat", path |-> path, args |-> args]
    /\ innerCalls' = <<[op |-> "stat", path |-> path, args |-> args]>>
    /\ innerRp' = rp
    /\ IF rp.tag = "Err"
       THEN result' = rp /\ checks' = <<>>
       ELSE LET meta == into_metadata(rp.val)
                chk  == sanity_check_path_mode(info, "Stat", path, path, meta.mode)
            IN  /\ checks' = <<CheckRun("Stat", path, path, meta.mode)>>
                /\ result' = IF chk.tag = "Err" THEN chk
                             ELSE Ok(RpStat_new([mode |-> meta.mode, content_length |-> 0]))
    /\ UNCHANGED <<info, innerInfo, lister>>

SanityCheckAccessor_stat(path, args, rp) ==
    /\ call' = [op |-> "stat", path |-> path, args |-> args]
    /\ innerCalls' = <<[op |-> "stat", path |-> path, args |-> args]>>
    /\ innerRp' = rp
    /\ IF rp.tag = "Err"
       THEN result' = rp /\ checks' = <<>>
       ELSE LET meta == into_metadata(rp.val)
                chk  == sanity_check_path_mode(info, "Stat", path, path, meta.mode)
            IN  /\ checks' = <<CheckRun("Stat", path, path, meta.mode)>>
                /\ result' = IF chk.tag = "Err" THEN chk ELSE Ok(RpStat_new(meta))
    /\ UNCHANGED <<info, innerInfo, lister>>

SanityCheckAccessor_list_eager(path, args, rp) ==
    /\ call' = [op |-> "list", path |-> path, args |-> args]
    /\ innerCalls' = <<[op |-> "list", path |-> path, args |-> args]>>
    /\ innerRp' = rp
    /\ IF rp.tag = "Err"
       THEN result' = rp /\ checks' = <<>> /\ lister' = lister
       ELSE LET chk == sanity_check_path_mode(info, "List", path, path, "DIR")
                l   == SanityCheckLister_new(info, path, rp.val.lister)
            IN  /\ checks' = <<CheckRun("List", path, path, "DIR")>>
                /\ result' = IF chk.tag = "Err" THEN chk
                             ELSE Ok([rp |-> rp.val.rp, lister |-> l])
                /\ lister' = IF chk.tag = "Err" THEN lister ELSE l
    /\ UNCHANGED <<info, innerInfo>>

SanityCheckAccessor_list(path, args, rp) ==
    /\ call' = [op |-> "list", path |-> path, args |-> args]
    /\ innerCalls' = <<[op |-> "list", path |-> path, args |-> args]>>
    /\ innerRp' = rp
    /\ checks' = <<>>
    /\ IF rp.tag = "Err"
       THEN result' = rp /\ lister' = lister
       ELSE LET l == SanityCheckLister_new(info, path, rp.val.lister)
            IN  /\ result' = Ok([rp |-> rp.val.rp, lister |-> l])
                /\ lister' = l
    /\ UNCHANGED <<info, innerInfo>>

----------------------------------------------------------------------------
(* SanityCheckLister *)

\* variant: the inner entry is forwarded without the check
SanityCheckLister_next_unchecked(rp) ==
    /\ call' = [op |-> "next"]
    /\ innerCalls' = <<[op |-> "next"]>>
    /\ innerRp' = rp
    /\ lister' = [lister EXCEPT !.inner = InnerLister_after(@, rp)]
    /\ checks' = <<>>
    /\ result' = rp
    /\ UNCHANGED <<info, innerInfo>>

\* variant: a malformed entry ends the stream instead of failing it
SanityCheckLister_next_stop(rp) ==
    /\ call' = [op |-> "next"]
    /\ innerCalls' = <<[op |-> "next"]>>
    /\ innerRp' = rp
    /\ lister' = [lister EXCEPT !.inner = InnerLister_after(@, rp)]
    /\ IF rp.tag = "Err"
       THEN result' = rp /\ checks' = <<>>
       ELSE IF rp.val.some
       THEN LET entry == rp.val.entry
                chk   == sanity_check_path_mode(lister.info, "List", lister.list_path,
                                                entry.path, entry.mode)
            IN  /\ checks' = <<CheckRun("List", lister.list_path, entry.path, entry.mode)>>
                /\ result' = IF chk.tag = "Err" THEN Ok(None) ELSE Ok(Some(entry))
       ELSE result' = Ok(None) /\ checks' = <<>>
    /\ UNCHANGED <<info, innerInfo>>

\* variant: an inner error is reported as an unexpected response
SanityCheckLister_next_wrap(rp) ==
    /\ call' = [op |-> "next"]
    /\ innerCalls' = <<[op |-> "next"]>>
    /\ innerRp' = rp
    /\ lister' = [lister EXCEPT !.inner = InnerLister_after(@, rp)]
    /\ IF rp.tag = "Err"
       THEN /\ result' = Err(unexpected_response(lister.info, "List", lister.list_path,
                                                 lister.list_path, [template |-> "inner"]))
            /\ checks' = <<>>
       ELSE IF rp.val.some
       THEN LET entry == rp.val.entry
                chk   == sanity_check_path_mode(lister.info, "List", lister.list_path,
                                                entry.path, entry.mode)
            IN  /\ checks' = <<CheckRun("List", lister.list_path, entry.path, entry.mode)>>
                /\ result' = IF chk.tag = "Err" THEN chk ELSE Ok(Some(entry))
       ELSE result' = Ok(None) /\ checks' = <<>>
    /\ UNCHANGED <<info, innerInfo>>

\* variant: the lister remembers a failure and ends the stream after it
SanityCheckLister_next_poisoned(rp) ==
    /\ call' = [op |-> "next"]
    /\ IF "failed" \in DOMAIN lister
       THEN /\ innerCalls' = <<>>
            /\ innerRp' = NoResult
            /\ checks' = <<>>
            /\ result' = Ok(None)
            /\ lister' = lister
       ELSE /\ innerCalls' = <<[op |-> "next"]>>
            /\ innerRp' = rp
            /\ IF rp.tag = "Err"
               THEN result' = rp /\ checks' = <<>>
               ELSE IF rp.val.some
               THEN LET entry == rp.val.entry
                        chk   == sanity_check_path_mode(lister.info, "List",
                                                        lister.list_path,
                                                        entry.path, entry.mode)
                    IN  /\ checks' = <<CheckRun("List", lister.list_path,
                                                entry.path, entry.mode)>>
                        /\ result' = IF chk.tag = "Err" THEN chk ELSE Ok(Some(entry))
               ELSE result' = Ok(None) /\ checks' = <<>>
            /\ lister' = IF result'.tag = "Err"
                         THEN [created |-> TRUE, info |-> lister.info,
                               list_path |-> lister.list_path,
                               inner |-> InnerLister_after(lister.inner, rp),
                               failed |-> TRUE]
                         ELSE [lister EXCEPT !.inner = InnerLister_after(@, rp)]
    /\ UNCHANGED <<info, innerInfo>>

SanityCheckLister_next(rp) ==
    /\ call' = [op |-> "next"]
    /\ innerCalls' = <<[op |-> "next"]>>
    /\ innerRp' = rp
    /\ lister' = [lister EXCEPT !.inner = InnerLister_after(@, rp)]
    /\ IF rp.tag = "Err"
       THEN result' = rp /\ checks' = <<>>
       ELSE IF rp.val.some
       THEN LET entry == rp.val.entry
                chk   == sanity_check_path_mode(lister.info, "List", lister.list_path,
                                                entry.path, entry.mode)
            IN  /\ checks' = <<CheckRun("List", lister.list_path, entry.path, entry.mode)>>
                /\ result' = IF chk.tag = "Err" THEN chk ELSE Ok(Some(entry))
       ELSE result' = Ok(None) /\ checks' = <<>>
    /\ UNCHANGED <<info, innerInfo>>

----------------------------------------------------------------------------
(* Spec: every operation of the layered accessor, in any order *)

Init ==
    /\ innerInfo \in AccessorInfos
    /\ info = SanityCheckLayer_layer(innerInfo)
    /\ lister = NoLister
    /\ call = NoCall
    /\ innerCalls = <<>>
    /\ innerRp = NoResult
    /\ checks = <<>>
    /\ result = NoResult
    /\ pulled = <<>>
    /\ yielded = <<>>
    /\ listed = NoCall

Info == SanityCheckAccessor_info /\ UNCHANGED <<pulled, yielded, listed>>

Read ==
    \E path \in SamplePaths, args \in OpArgs, rp \in InnerIoResponses("RpRead") :
        SanityCheckAccessor_read(path, args, rp) /\ UNCHANGED <<pulled, yielded, listed>>

Write ==
    \E path \in SamplePaths, args \in OpArgs, rp \in InnerIoResponses("RpWrite") :
        SanityCheckAccessor_write(path, args, rp) /\ UNCHANGED <<pulled, yielded, listed>>

Delete ==
    \E rp \in InnerIoResponses("RpDelete") :
        SanityCheckAccessor_delete(rp) /\ UNCHANGED <<pulled, yielded, listed>>

Stat ==
    \E path \in Paths, args \in OpArgs, rp \in InnerStatResponses :
        SanityCheckAccessor_stat(path, args, rp) /\ UNCHANGED <<pulled, yielded, listed>>

List ==
    \E path \in Paths, args \in OpArgs, rp \in InnerListResponses :
        /\ SanityCheckAccessor_list(path, args, rp)
        /\ listed' = IF result'.tag = "Ok" THEN call' ELSE listed
        /\ UNCHANGED <<pulled, yielded>>

ListerNext ==
    /\ lister # NoLister
    /\ \E rp \in InnerNextResponses(lister.inner, Paths) :
            SanityCheckLister_next(rp) /\ UNCHANGED <<pulled, yielded, listed>>

Next == Info \/ Read \/ Write \/ Delete \/ Stat \/ List \/ ListerNext

Spec == Init /\ [][Next]_vars

----------------------------------------------------------------------------
(* SpecStream: the life of one list stream, with the history of its answers *)

StreamList ==
    /\ lister = NoLister
    /\ \E path \in SamplePaths, args \in OpArgs, rp \in InnerListResponses :
            /\ SanityCheckAccessor_list(path, args, rp)
            /\ listed' = IF result'.tag = "Ok" THEN call' ELSE listed
            /\ UNCHANGED <<pulled, yielded>>

StreamNext ==
    /\ lister # NoLister
    /\ Len(pulled) < MaxStream
    /\ \E rp \in InnerNextResponses(lister.inner, SamplePaths) :
            /\ SanityCheckLister_next(rp)
            /\ pulled' = Append(pulled, rp)
            /\ yielded' = Append(yielded, result')
            /\ UNCHANGED listed

NextStream == StreamList \/ StreamNext

SpecStream == Init /\ [][NextStream]_vars

----------------------------------------------------------------------------
(* SpecCheck: sanity_check_path_mode applied to every input *)

InitCheck ==
    /\ innerInfo \in AccessorInfos
    /\ info = SanityCheckLayer_layer(innerInfo)
    /\ lister = NoLister
    /\ call \in [op : {"check"}, cop : Operations, context_path : Paths,
                 target_path : Paths, mode : Modes]
    /\ innerCalls = <<>>
    /\ innerRp = NoResult
    /\ checks = <<>>
    /\ result = NoResult
    /\ pulled = <<>>
    /\ yielded = <<>>
    /\ listed = NoCall

Check ==
    /\ call.op = "check"
    /\ result = NoResult
    /\ result' = sanity_check_path_mode(info, call.cop, call.context_path,
                                        call.target_path, call.mode)
    /\ checks' = <<CheckRun(call.cop, call.context_path, call.target_path, call.mode)>>
    /\ UNCHANGED <<info, innerInfo, lister, call, innerCalls, innerRp, pulled, yielded, listed>>

NextCheck == Check

SpecCheck == InitCheck /\ [][NextCheck]_vars

----------------------------------------------------------------------------
(* Properties *)

EndsWithSlash(p) == Len(p) > 0 /\ p[Len(p)] = "/"

ModeAgrees(mode, p) ==
    /\ mode # "Unknown"
    /\ mode = "DIR" => EndsWithSlash(p)
    /\ mode = "FILE" => ~EndsWithSlash(p)

IsEntry(rp) == rp.tag = "Ok" /\ rp.val.some

EntryOf(rp) == rp.val.entry

Passes(rp) == ModeAgrees(EntryOf(rp).mode, EntryOf(rp).path)

IsValidationError(r) == r.tag = "Err" /\ r.err.kind = "Unexpected"

\* C1: whatever the inner accessor answers, metadata that stat returns
\* successfully and every entry that the list stream's next() returns as
\* Some(entry) has a mode other than Unknown, a path ending with "/" when the
\* mode is DIR and a path not ending with "/" when the mode is FILE.
C1_SurfacedModeAgreesWithPath ==
    /\ (call.op = "stat" /\ result.tag = "Ok")
            => ModeAgrees(into_metadata(result.val).mode, call.path)
    /\ (call.op = "next" /\ IsEntry(result))
            => ModeAgrees(EntryOf(result).mode, EntryOf(result).path)

C1_Witness ==
    /\ call.op = "next"
    /\ IsEntry(result)
    /\ EntryOf(result) = [path |-> <<"a", "/">>, mode |-> "DIR"]

\* C2: for every operation kind, context path, target path p and mode,
\* sanity_check_path_mode returns Ok exactly when (mode = DIR and p is
\* directory-shaped) or (mode = FILE and p is not), where p is directory-shaped
\* iff p = "/" or p's last character is "/" ("/" is, "" is not); in every other
\* case, Unknown with any path included, it returns an Unexpected error.
C2_CheckOkIffModeMatchesShape ==
    (call.op = "check" /\ result # NoResult) =>
        LET p        == call.target_path
            dirShape == p = <<"/">> \/ EndsWithSlash(p)
        IN  /\ is_directory_path(p) <=> dirShape
            /\ is_directory_path(<<"/">>) /\ ~is_directory_path(<<>>)
            /\ result.tag = "Ok" <=> \/ call.mode = "DIR" /\ dirShape
                                     \/ call.mode = "FILE" /\ ~dirShape
            /\ result.tag # "Ok" => IsValidationError(result)
            /\ call.mode = "Unknown" => IsValidationError(result)

C2_Witness ==
    /\ call.op = "check"
    /\ call.cop = "List"
    /\ call.mode = "Unknown"
    /\ call.target_path = <<"a", "/">>
    /\ IsValidationError(result)

\* The longest prefix of the inner stream's answers that holds only entries.
LeadingEntries ==
    CHOOSE m \in 0..Len(pulled) :
        /\ \A i \in 1..m : IsEntry(pulled[i])
        /\ m = Len(pulled) \/ ~IsEntry(pulled[m + 1])

\* The first of those entries that fails the mode check, 0 if none does.
FirstBad ==
    LET bad == {k \in 1..LeadingEntries : ~Passes(pulled[k])}
    IN  IF bad = {} THEN 0 ELSE CHOOSE k \in bad : \A j \in bad : k <= j

\* C3: when the inner stream yields entries e1..en without inner errors and ek
\* is the first that fails the mode check, the wrapper's successive next()
\* calls yield exactly e1..e(k-1) in the inner order, none skipped, duplicated
\* or reordered, and the k-th call returns an Unexpected error whose context
\* "path" is ek's path; when none fails the wrapper yields exactly e1..en, and
\* then the end of the stream when the inner stream ends.
C3_FailFastInOrder ==
    /\ Len(yielded) = Len(pulled)
    /\ LET m == LeadingEntries
           k == FirstBad
       IN  IF k > 0
           THEN /\ \A i \in 1..(k - 1) : yielded[i] = Ok(Some(EntryOf(pulled[i])))
                /\ IsValidationError(yielded[k])
                /\ yielded[k].err.context[1] = <<"path", EntryOf(pulled[k]).path>>
           ELSE /\ \A i \in 1..m : yielded[i] = Ok(Some(EntryOf(pulled[i])))
                /\ (m < Len(pulled) /\ pulled[m + 1] = Ok(None))
                        => yielded[m + 1] = Ok(None)

C3_Witness ==
    /\ Len(pulled) = 2
    /\ IsEntry(pulled[1]) /\ Passes(pulled[1])
    /\ IsEntry(pulled[2]) /\ ~Passes(pulled[2])
    /\ yielded[1] = pulled[1]
    /\ IsValidationError(yielded[2])

\* C4: a validation error carries the context key "path" with the offending
\* target path and exactly one further key: "list_path" with the path given to
\* the list() that created the stream, for a list stream failure (operation
\* List); "context_path" with the stat path, which is also "path", for a stat
\* failure (operation Stat).
C4_ErrorContext ==
    /\ (call.op = "next" /\ innerRp.tag = "Ok" /\ result.tag = "Err") =>
            /\ result.err.context = << <<"path", EntryOf(innerRp).path>>,
                                       <<"list_path", listed.path>> >>
            /\ result.err.operation = "List"
    /\ (call.op = "stat" /\ innerRp.tag = "Ok" /\ result.tag = "Err") =>
            /\ result.err.context = << <<"path", call.path>>,
                                       <<"context_path", call.path>> >>
            /\ result.err.operation = "Stat"

C4_Witness ==
    /\ call.op = "next"
    /\ innerRp.tag = "Ok"
    /\ result.tag = "Err"
    /\ listed.path = <<"a", "/">>
    /\ EntryOf(innerRp).path = <<"a">>

\* C5: a stat(path, args) call invokes the inner stat exactly once, with the
\* same path and args; metadata that passes the mode check is returned
\* unchanged; when the check fails only the Unexpected error is returned.
C5_StatTransparent ==
    call.op = "stat" =>
        /\ innerCalls = <<call>>
        /\ innerRp.tag = "Ok" =>
                IF ModeAgrees(into_metadata(innerRp.val).mode, call.path)
                THEN /\ result.tag = "Ok"
                     /\ into_metadata(result.val) = into_metadata(innerRp.val)
                ELSE IsValidationError(result) /\ DOMAIN result = {"tag", "err"}

C5_Witness ==
    /\ call.op = "stat"
    /\ result.tag = "Ok"
    /\ into_metadata(result.val) = [mode |-> "FILE", content_length |-> 1]

\* C6: read, write and delete delegate exactly once to the inner accessor with
\* the same arguments, return its result (success or error) unchanged and run
\* no mode check; info() returns the descriptor obtained from the inner
\* accessor when the layer was built, without calling the inner accessor.
C6_PassThrough ==
    /\ call.op \in {"read", "write", "delete"} =>
            /\ innerCalls = <<call>>
            /\ result = innerRp
            /\ checks = <<>>
    /\ call.op = "info" =>
            /\ result = Ok(innerInfo)
            /\ innerCalls = <<>>
            /\ checks = <<>>

C6_Witness ==
    /\ call.op = "read"
    /\ call.path = <<"a", "/">>
    /\ innerRp.tag = "Err"
    /\ result = innerRp

\* C7: an error of the inner stat, the inner list or the inner stream's next()
\* is returned as it is (same kind, message and context) and no mode check is
\* run for that call; the only errors the wrapper originates are the
\* Unexpected validation errors, each after a check of a successful answer.
C7_InnerErrorsForwarded ==
    /\ (call.op \in {"stat", "list", "next"} /\ innerRp.tag = "Err") =>
            /\ result = innerRp
            /\ checks = <<>>
    /\ (call.op \notin {"none", "info"} /\ result.tag = "Err" /\ result # innerRp) =>
            /\ IsValidationError(result)
            /\ innerRp.tag = "Ok"
            /\ Len(checks) = 1

C7_Witness ==
    /\ call.op = "next"
    /\ innerRp.tag = "Err"
    /\ innerRp.err.kind = "NotFound"
    /\ result = innerRp

\* C8 as claimed: once a next() call has returned an error, no later next()
\* call on that stream returns Some(entry).
C8_PoisonedAfterError ==
    \A i, j \in 1..Len(yielded) :
        (i < j /\ yielded[i].tag = "Err") => ~IsEntry(yielded[j])

\* C8 as amended: the wrapper keeps no failed state; a next() call made after
\* one that returned an error pulls the inner stream again and returns
\* Some(entry) exactly when the inner stream then yields an entry that passes
\* the mode check, and that entry is the one returned.
C8_NoFailedState ==
    \A i, j \in 1..Len(yielded) :
        (i < j /\ yielded[i].tag = "Err") =>
            /\ IsEntry(yielded[j]) <=> (IsEntry(pulled[j]) /\ Passes(pulled[j]))
            /\ IsEntry(yielded[j]) => yielded[j] = pulled[j]

C8_Witness ==
    /\ Len(yielded) = 3
    /\ IsEntry(yielded[1])
    /\ IsValidationError(yielded[2]) /\ IsEntry(pulled[2])
    /\ IsEntry(yielded[3])

C10_LazyUnbuffered ==
    /\ call.op = "list" =>
            /\ innerCalls = <<call>>
            /\ checks = <<>>
            /\ pulled = <<>>
    /\ call.op = "next" =>
            /\ innerCalls = <<[op |-> "next"]>>
            /\ innerRp = pulled[Len(pulled)]
            /\ checks = IF IsEntry(innerRp)
                        THEN <<CheckRun("List", listed.path, EntryOf(innerRp).path,
                                        EntryOf(innerRp).mode)>>
                        ELSE <<>>
    /\ Len(pulled) = Len(yielded)
    /\ \A i \in 1..Len(pulled) :
            IsEntry(pulled[i]) => yielded[i] = pulled[i] \/ IsValidationError(yielded[i])

C10_Witness ==
    /\ call.op = "next"
    /\ Len(pulled) = 2
    /\ IsEntry(pulled[1]) /\ IsEntry(pulled[2])
    /\ yielded[1] = pulled[1]
    /\ Len(checks) = 1

====
